---- MODULE Spec2Model ----
(***************************************************************************)
(* Model of src/src/lib.rs: get_header (length/header classification of a  *)
(* u32) and encode_u32 (RFC 2279 style packing into 1..6 bytes).           *)
(*                                                                         *)
(* A u32 is the record [hi |-> bit 31, lo |-> bits 30..0]: the low 31 bits *)
(* are an ordinary natural number and bit 31 is kept apart, so that all    *)
(* 2^32 values are representable and the width of the type is kept.        *)
(* A Codepoint (tinyvec::ArrayVec<[u8; 6]>) is [arr |-> the six bytes of   *)
(* the backing array, len |-> the logical length].                         *)
(***************************************************************************)
EXTENDS Integers, Sequences, FiniteSets, TLC

\* How many neighbours on each side of every range boundary are encoded.
Spread == 2

----------------------------------------------------------------------------
(* u32 and u8 arithmetic *)

U32(h, l) == [hi |-> h, lo |-> l]

\* u32::MAX >> 1, the largest value without bit 31
MaxLow == 2147483647

\* a & b on naturals
RECURSIVE BitAnd(_, _)
BitAnd(a, b) ==
    IF a = 0 \/ b = 0 THEN 0
    ELSE (IF a % 2 = 1 /\ b % 2 = 1 THEN 1 ELSE 0) + 2 * BitAnd(a \div 2, b \div 2)

\* a | b on naturals
RECURSIVE BitOr(_, _)
BitOr(a, b) ==
    IF a = 0 THEN b
    ELSE IF b = 0 THEN a
    ELSE (IF a % 2 = 1 \/ b % 2 = 1 THEN 1 ELSE 0) + 2 * BitOr(a \div 2, b \div 2)

\* x as u8 : truncation of a u32 to its low 8 bits
AsU8(x) == x.lo % 256

\* Mutant: shifts by 5 instead of 6.
Shr6_by5(x) == U32(0, (x.lo \div 32) + x.hi * 67108864)

\* input >>= 6 : logical right shift of a u32; bit 31 lands on bit 25
Shr6(x) == U32(0, (x.lo \div 64) + x.hi * 33554432)

\* lo..=hi as a match pattern on a u32 (every pattern bound is below 2^31)
InRange(x, lo, hi) == x.hi = 0 /\ lo <= x.lo /\ x.lo <= hi

----------------------------------------------------------------------------
(* get_header *)

Ok(l, h) == [ok |-> TRUE, length |-> l, header |-> h]
Err == [ok |-> FALSE, length |-> 0, header |-> 0]

\* Mutant: the first arm takes 0x80 as well (off by one at a boundary).
get_header_off_by_one(input) ==
    IF InRange(input, 0, 128) THEN Ok(1, 0)
    ELSE IF InRange(input, 129, 2047) THEN Ok(2, 192)
    ELSE IF InRange(input, 2048, 65535) THEN Ok(3, 224)
    ELSE IF InRange(input, 65536, 2097151) THEN Ok(4, 240)
    ELSE IF InRange(input, 2097152, 67108863) THEN Ok(5, 248)
    ELSE IF InRange(input, 67108864, 2147483647) THEN Ok(6, 252)
    ELSE Err

\* Mutant: no overflow arm, the last arm takes every remaining value.
get_header_no_overflow(input) ==
    IF InRange(input, 0, 127) THEN Ok(1, 0)
    ELSE IF InRange(input, 128, 2047) THEN Ok(2, 192)
    ELSE IF InRange(input, 2048, 65535) THEN Ok(3, 224)
    ELSE IF InRange(input, 65536, 2097151) THEN Ok(4, 240)
    ELSE IF InRange(input, 2097152, 67108863) THEN Ok(5, 248)
    ELSE Ok(6, 252)

\* Mutant: the third arm starts at 0x1000, so 0x800..0xFFF get two bytes.
get_header_wide_second(input) ==
    IF InRange(input, 0, 127) THEN Ok(1, 0)
    ELSE IF InRange(input, 128, 4095) THEN Ok(2, 192)
    ELSE IF InRange(input, 4096, 65535) THEN Ok(3, 224)
    ELSE IF InRange(input, 65536, 2097151) THEN Ok(4, 240)
    ELSE IF InRange(input, 2097152, 67108863) THEN Ok(5, 248)
    ELSE IF InRange(input, 67108864, 2147483647) THEN Ok(6, 252)
    ELSE Err

\* Mutant: the header of the 4-byte class has one leading 1-bit too few.
get_header_short_header(input) ==
    IF InRange(input, 0, 127) THEN Ok(1, 0)
    ELSE IF InRange(input, 128, 2047) THEN Ok(2, 192)
    ELSE IF InRange(input, 2048, 65535) THEN Ok(3, 224)
    ELSE IF InRange(input, 65536, 2097151) THEN Ok(4, 224)
    ELSE IF InRange(input, 2097152, 67108863) THEN Ok(5, 248)
    ELSE IF InRange(input, 67108864, 2147483647) THEN Ok(6, 252)
    ELSE Err

get_header(input) ==
    IF InRange(input, 0, 127) THEN Ok(1, 0)                         \* 0x00000000..=0x0000007F => (1, 0b00000000)
    ELSE IF InRange(input, 128, 2047) THEN Ok(2, 192)               \* 0x00000080..=0x000007FF => (2, 0b11000000)
    ELSE IF InRange(input, 2048, 65535) THEN Ok(3, 224)             \* 0x00000800..=0x0000FFFF => (3, 0b11100000)
    ELSE IF InRange(input, 65536, 2097151) THEN Ok(4, 240)          \* 0x00010000..=0x001FFFFF => (4, 0b11110000)
    ELSE IF InRange(input, 2097152, 67108863) THEN Ok(5, 248)       \* 0x00200000..=0x03FFFFFF => (5, 0b11111000)
    ELSE IF InRange(input, 67108864, 2147483647) THEN Ok(6, 252)    \* 0x04000000..=0x7FFFFFFF => (6, 0b11111100)
    ELSE Err                                                        \* _ => return Err(OverflowError)

----------------------------------------------------------------------------
(* pieces of encode_u32 *)

\* Mutant: the logical length is the capacity of the array.
NewOutput_full(length) == [arr |-> [k \in 0..5 |-> 0], len |-> 6]

\* Codepoint::new() followed by set_len(length): six zero bytes, len = length
NewOutput(length) == [arr |-> [k \in 0..5 |-> 0], len |-> length]

\* Mutant: the range is not reversed, the bytes are filled front to back.
LoopRange_forward(length) == [k \in 1..(length - 1) |-> k]

\* Mutant: the range starts at 0, so byte 0 is treated as a continuation byte.
LoopRange_from0(length) == [k \in 1..length |-> length - k]

\* (1..length).rev() : the indices length-1, ..., 1 in iteration order
LoopRange(length) == [k \in 1..(length - 1) |-> length - k]

\* Mutant: masks with 0b0111_1111.
ContinuationByte_mask7(input) == BitOr(128, AsU8(U32(0, BitAnd(input.lo, 127))))

\* Mutant: masks with 0b0001_1111.
ContinuationByte_mask5(input) == BitOr(128, AsU8(U32(0, BitAnd(input.lo, 31))))

\* 0b1000_0000 | (input & 0b0011_1111) as u8
ContinuationByte(input) == BitOr(128, AsU8(U32(0, BitAnd(input.lo, 63))))

\* header | input as u8
HeaderByte(header, input) == BitOr(header, AsU8(input))

\* &output[..] : the logical contents, as a sequence (element k+1 is output[k])
Slice(out) == [k \in 1..out.len |-> out.arr[k - 1]]

----------------------------------------------------------------------------
(* the inputs encoded *)

Boundaries == {0, 127, 128, 2047, 2048, 65535, 65536, 2097151, 2097152,
               67108863, 67108864, MaxLow}

\* the values within Spread of b that lie in 0..MaxLow
Near(b) == {IF d <= b THEN b - d ELSE b : d \in 0..Spread} \cup
           {IF d <= MaxLow - b THEN b + d ELSE b : d \in 0..Spread}

\* the inputs of tests::header_works and tests::encoding_works
Examples == {169, 8800, 97, 0, 2083582, 66891759, 2112543317}

ValidInputs == {U32(0, l) : l \in (UNION {Near(b) : b \in Boundaries}) \cup Examples}

\* values with bit 31 set: 0x80000000.., ..0xFFFFFFFF, 0xFDEADA55
OverflowInputs == {U32(1, l) : l \in (0..Spread) \cup {MaxLow - d : d \in 0..Spread} \cup {2112543317}}

Inputs == ValidInputs \cup OverflowInputs

----------------------------------------------------------------------------
(* encode_u32 as a state machine; a finished call is kept in prev and the  *)
(* next call is made with any input.                                       *)

VARIABLES arg, input, length, header, output, iter, iters, pc, result, prev

vars == <<arg, input, length, header, output, iter, iters, pc, result, prev>>

NoOutput == [arr |-> [k \in 0..5 |-> 0], len |-> 0]

Enter(v) ==
    /\ arg = v
    /\ input = v
    /\ length = 0
    /\ header = 0
    /\ output = NoOutput
    /\ iter = <<>>
    /\ iters = 0
    /\ pc = "get_header"
    /\ result = "None"

Init ==
    /\ \E v \in Inputs : Enter(v)
    /\ prev = [arg |-> U32(0, 0), result |-> "None", out |-> <<>>]

\* let (length, header) = get_header(input)?;
GetHeader ==
    /\ pc = "get_header"
    /\ LET r == get_header(input) IN
         IF r.ok
         THEN /\ length' = r.length
              /\ header' = r.header
              /\ pc' = "new"
              /\ result' = result
         ELSE /\ pc' = "done"
              /\ result' = "Err"
              /\ UNCHANGED <<length, header>>
    /\ UNCHANGED <<arg, input, output, iter, iters, prev>>

\* let mut output = Codepoint::new(); output.set_len(length); and the loop's iterator
Alloc ==
    /\ pc = "new"
    /\ IF length <= 6
       THEN /\ output' = NewOutput(length)
            /\ iter' = LoopRange(length)
            /\ pc' = "loop"
            /\ result' = result
       ELSE /\ pc' = "done"
            /\ result' = "Panic"
            /\ UNCHANGED <<output, iter>>
    /\ UNCHANGED <<arg, input, length, header, iters, prev>>

\* one iteration: output[i] = 0b1000_0000 | (input & 0b0011_1111) as u8; input >>= 6;
LoopBody ==
    /\ pc = "loop"
    /\ iter # <<>>
    /\ LET i == Head(iter) IN
         IF i < output.len
         THEN /\ output' = [output EXCEPT !.arr[i] = ContinuationByte(input)]
              /\ input' = Shr6(input)
              /\ iter' = Tail(iter)
              /\ iters' = iters + 1
              /\ UNCHANGED <<pc, result>>
         ELSE /\ pc' = "done"
              /\ result' = "Panic"
              /\ UNCHANGED <<output, input, iter, iters>>
    /\ UNCHANGED <<arg, length, header, prev>>

\* after the loop: output[0] = header | input as u8; Ok(output)
WriteHeader ==
    /\ pc = "loop"
    /\ iter = <<>>
    /\ IF 0 < output.len
       THEN /\ output' = [output EXCEPT !.arr[0] = HeaderByte(header, input)]
            /\ result' = "Ok"
       ELSE /\ result' = "Panic"
            /\ output' = output
    /\ pc' = "done"
    /\ UNCHANGED <<arg, input, length, header, iter, iters, prev>>

\* the caller keeps the outcome and calls encode_u32 again
NextCall ==
    /\ pc = "done"
    /\ prev' = [arg |-> arg, result |-> result,
                out |-> IF result = "Ok" THEN Slice(output) ELSE <<>>]
    /\ \E v \in Inputs :
         /\ arg' = v
         /\ input' = v
    /\ length' = 0
    /\ header' = 0
    /\ output' = NoOutput
    /\ iter' = <<>>
    /\ iters' = 0
    /\ pc' = "get_header"
    /\ result' = "None"

Next == GetHeader \/ Alloc \/ LoopBody \/ WriteHeader \/ NextCall

Spec == Init /\ [][Next]_vars

----------------------------------------------------------------------------
(* vocabulary of the properties *)

RECURSIVE Pow2(_)
Pow2(n) == IF n <= 0 THEN 1 ELSE 2 * Pow2(n - 1)

RECURSIVE Pow64(_)
Pow64(n) == IF n <= 0 THEN 1 ELSE 64 * Pow64(n - 1)

\* the number of leading 1-bits of a byte
RECURSIVE LeadingOnes(_)
LeadingOnes(b) == IF b >= 128 THEN 1 + LeadingOnes((2 * b) % 256) ELSE 0

\* the call has returned Ok(output)
Returned == pc = "done" /\ result = "Ok"

\* the length/header table of the specification, section 4.1
Table == <<
    [lo |-> 0,        hi |-> 127,      length |-> 1, header |-> 0],
    [lo |-> 128,      hi |-> 2047,     length |-> 2, header |-> 192],
    [lo |-> 2048,     hi |-> 65535,    length |-> 3, header |-> 224],
    [lo |-> 65536,    hi |-> 2097151,  length |-> 4, header |-> 240],
    [lo |-> 2097152,  hi |-> 67108863, length |-> 5, header |-> 248],
    [lo |-> 67108864, hi |-> MaxLow,   length |-> 6, header |-> 252] >>

Rows(v) == {k \in 1..6 : Table[k].lo <= v /\ v <= Table[k].hi}

\* the bits of byte 0 the header pattern occupies: its leading 1-bits and the
\* 0 bit that ends them
header_mask_for(L) == IF L = 1 THEN 128 ELSE 256 - Pow2(7 - L)

\* the packing of v into L bytes with header H, byte i at position i + 1
RefPacking(v, L, H) ==
    [k \in 1..L |-> IF k = 1 THEN BitOr(H, v \div Pow64(L - 1))
                    ELSE BitOr(128, BitAnd(v \div Pow64(L - k), 63))]

WorkedExamples == {
    <<169, <<194, 169>> >>,
    <<8800, <<226, 137, 160>> >>,
    <<97, <<97>> >>,
    <<0, <<0>> >>,
    <<2083582, <<247, 188, 171, 190>> >>,
    <<66891759, <<251, 191, 138, 191, 175>> >>,
    <<2112543317, <<253, 189, 186, 173, 169, 149>> >> }

\* the reference decoder: the length from the leading 1-bits of byte 0, the
\* bits of byte 0 below the header pattern, then 6 bits of every further byte;
\* -1 when the bytes are no well-formed sequence
RECURSIVE DecodeTail(_, _, _)
DecodeTail(s, k, acc) ==
    IF k > Len(s) THEN acc ELSE DecodeTail(s, k + 1, (acc * 64) + (s[k] % 64))

Decode(s) ==
    IF s = <<>> THEN -1
    ELSE LET n == LeadingOnes(s[1])
             L == IF n = 0 THEN 1 ELSE n
         IN IF n = 1 \/ n > 6 \/ L # Len(s) THEN -1
            ELSE DecodeTail(s, 2, IF L = 1 THEN s[1] % 128 ELSE s[1] % Pow2(7 - L))

\* s before t in the lexicographic order of unsigned bytes
LexLess(s, t) ==
    \E k \in 1..(Len(t)) :
        /\ \A j \in 1..(k - 1) : j <= Len(s) /\ s[j] = t[j]
        /\ (k > Len(s) \/ (k <= Len(s) /\ s[k] < t[k]))

----------------------------------------------------------------------------
(* properties *)

\* C1: for every value in [0, 0x7FFFFFFF] get_header succeeds with the length
\* and header of the one table row whose range holds the value; the six rows
\* are contiguous, disjoint and cover [0, 0x7FFFFFFF].
C1_Classification ==
    /\ Table[1].lo = 0 /\ Table[6].hi = MaxLow
    /\ \A k \in 1..5 : Table[k + 1].lo = Table[k].hi + 1
    /\ (arg.hi = 0 /\ pc # "get_header") =>
          /\ result # "Err"
          /\ Cardinality(Rows(arg.lo)) = 1
          /\ \A k \in Rows(arg.lo) : length = Table[k].length /\ header = Table[k].header

\* a value on a boundary (0x80) classified right after its neighbour 0x7F
C1_Witness ==
    /\ pc = "new" /\ arg = U32(0, 128) /\ length = 2 /\ header = 192
    /\ prev.arg = U32(0, 127) /\ prev.result = "Ok" /\ Len(prev.out) = 1

\* C2: get_header and encode_u32 fail with OverflowError exactly when bit 31
\* of the value is set; the failure is returned without any byte sequence,
\* 0x7FFFFFFF succeeds with length 6, and there is no other failure.
C2_OverflowIff ==
    /\ pc # "get_header" => ((result = "Err") <=> (arg.hi = 1))
    /\ pc = "done" =>
          /\ result \in {"Ok", "Err"}
          /\ (result = "Ok") <=> (arg.hi = 0)
          /\ result = "Err" => output = NoOutput /\ length = 0 /\ iters = 0
          /\ arg = U32(0, MaxLow) => length = 6 /\ output.len = 6

\* 0x80000000 rejected right after 0x7FFFFFFF was encoded
C2_Witness ==
    /\ pc = "done" /\ arg = U32(1, 0) /\ result = "Err"
    /\ prev.arg = U32(0, MaxLow) /\ prev.result = "Ok" /\ Len(prev.out) = 6

\* C3: the bytes returned are the reference packing of the value (6-bit chunks,
\* least significant chunk last, most significant chunk in the header byte), and
\* the worked examples come out as listed.
C3_Packing ==
    Returned =>
        /\ Slice(output) = RefPacking(arg.lo, length, header)
        /\ \A e \in WorkedExamples : arg = U32(0, e[1]) => Slice(output) = e[2]

\* the six-byte worked example has been encoded
C3_Witness ==
    Returned /\ arg = U32(0, 2112543317) /\ iters = 5
             /\ Slice(output) = <<253, 189, 186, 173, 169, 149>>

\* C4: the logical length of the returned sequence is the length get_header
\* returned, and is one of 1..6.
C4_LengthInvariant ==
    Returned =>
        /\ output.len = length
        /\ Len(Slice(output)) = get_header(arg).length
        /\ length \in 1..6

\* a three-byte and a five-byte sequence returned one after the other
C4_Witness ==
    /\ Returned /\ output.len = 5 /\ length = 5
    /\ prev.result = "Ok" /\ Len(prev.out) = 3

\* C5: the value left after the shifts is below 256 and shares no bit with the
\* header pattern (its 1-bits and the 0 that ends them), so byte 0 masked with
\* the header's bits is the header.
C5_HeaderFits ==
    /\ (pc = "loop" /\ iter = <<>>) =>
          /\ input.hi = 0
          /\ input.lo < 256
          /\ BitAnd(input.lo, header_mask_for(length)) = 0
    /\ Returned => BitAnd(output.arr[0], header_mask_for(length)) = header

\* the largest two-byte value: all five free bits of byte 0 are used
C5_Witness ==
    Returned /\ arg = U32(0, 2047) /\ input = U32(0, 31) /\ output.arr[0] = 223

\* C6: every byte after the first has the two-bit prefix 10.
C6_Continuation ==
    (Returned /\ length > 1) =>
        \A i \in 1..(length - 1) : BitAnd(output.arr[i], 192) = 128

\* a multi-byte sequence whose continuation bytes carry all-ones payloads
C6_Witness ==
    Returned /\ arg = U32(0, 65535) /\ output.arr[1] = 191 /\ output.arr[2] = 191

\* C7: a value in [0, 0x7F] is encoded without any iteration of the loop, as
\* the single byte equal to the value.
C7_Ascii ==
    (arg.hi = 0 /\ arg.lo <= 127) =>
        /\ iters = 0
        /\ pc = "done" =>
              /\ result = "Ok"
              /\ header = 0
              /\ Slice(output) = <<arg.lo>>

\* 0x7F encoded as the byte 0x7F
C7_Witness ==
    Returned /\ arg = U32(0, 127) /\ iters = 0 /\ Slice(output) = <<127>>

\* C8 as stated: for length L > 1 the header and byte 0 have L - 1 leading
\* 1-bits, and 8 - L bits of byte 0 are free.
C8_AsStated ==
    (Returned /\ length > 1) =>
        /\ LeadingOnes(header) = length - 1
        /\ LeadingOnes(output.arr[0]) = length - 1
        /\ header = 256 - Pow2(9 - length)

\* C8 amended: for length L > 1 the header and byte 0 have L leading 1-bits,
\* the pattern (the 1-bits and the 0 ending them) takes L + 1 bits and 7 - L
\* bits of byte 0 are free; for length 1 there is no leading 1-bit.
C8_LeadingOnes ==
    Returned =>
        /\ LeadingOnes(output.arr[0]) = LeadingOnes(header)
        /\ length > 1 =>
              /\ LeadingOnes(header) = length
              /\ header = 256 - Pow2(8 - length)
              /\ input.hi = 0 /\ input.lo < Pow2(7 - length)
        /\ length = 1 => LeadingOnes(header) = 0

\* a four-byte sequence whose three free bits are all set
C8_Witness ==
    Returned /\ length = 4 /\ header = 240 /\ output.arr[0] = 247

\* C9: the reference decoder recovers the value from the bytes, and two
\* different values never get the same bytes.
C9_RoundTrip ==
    Returned =>
        /\ Decode(Slice(output)) = arg.lo
        /\ (prev.result = "Ok" /\ prev.arg # arg) => prev.out # Slice(output)

\* the largest value decoded back, after a different value was encoded
C9_Witness ==
    /\ Returned /\ arg = U32(0, MaxLow) /\ Decode(Slice(output)) = MaxLow
    /\ prev.result = "Ok" /\ prev.arg = U32(0, 67108864)

\* C10: of two values the smaller has the lexicographically smaller bytes, and
\* a longer sequence has the larger first byte.
C10_OrderPreserved ==
    (Returned /\ prev.result = "Ok" /\ prev.arg.lo < arg.lo) =>
        /\ LexLess(prev.out, Slice(output))
        /\ Len(prev.out) < output.len => prev.out[1] < output.arr[0]

\* two four-byte values that differ in a middle chunk, encoded in order
C10_Witness ==
    /\ Returned /\ arg = U32(0, 2097149) /\ prev.arg = U32(0, 2083582)
    /\ prev.result = "Ok" /\ LexLess(prev.out, Slice(output))

====
